---- MODULE Spec2Model ----
(***************************************************************************)
(* World of Bits (src/main.ts): a grid of numeric tokens generated from a  *)
(* seeded luck function, a persistent override store kept in localStorage, *)
(* the pickup / craft click handler and the player / map movement modes.   *)
(*                                                                         *)
(* Geographic coordinates are kept as integers: one unit of length is      *)
(* 1/TILE_DEGREES of a tile, measured from CLASSROOM_LATLNG, so that the   *)
(* rounding done by latLngToCell is a real rounding.  JavaScript strings   *)
(* are sequences of one-character strings, and the JSON text written to    *)
(* localStorage is a sequence of JSON tokens.                              *)
(***************************************************************************)
EXTENDS Integers, Sequences, FiniteSets, TLC

(***************************************************************************)
(* Bounds of the model.  The player walks, and the view is panned, along   *)
(* the classroom's row of cells, east of the classroom.                    *)
(***************************************************************************)
\* the player stays within MaxCol columns of the classroom's cell
MaxCol == 1
\* the centre of the view stays within MaxPanCol columns of it
MaxPanCol == 6
\* clicks add entries to the override store while it has fewer than MaxOverrides
MaxOverrides == 2
\* the page is reloaded at most MaxReloads times
MaxReloads == 1
\* the corners of the regions studied on their own lie within MaxCornerLat units
\* north or south, and MaxCornerLng units east or west, of the classroom
MaxCornerLat == 1
MaxCornerLng == 4

(***************************************************************************)
(* The map surface: half the height and half the width of the viewport,    *)
(* in units.                                                               *)
(***************************************************************************)
HalfLat == 1
HalfLng == 7

(***************************************************************************)
(* Program constants.                                                      *)
(***************************************************************************)
\* "number | null": null is a value outside the numbers the program handles
null == -1
\* a tile is TILE_DEGREES units wide (1e-4 degree in the source)
TILE_DEGREES == 2
INTERACTION_RADIUS == 9
TARGET_VALUE == 256
\* r > 0.15, in draws of 1/Draws
SpawnThreshold == 15
\* a level list whose last level is doubled
levelsWithSixteen == <<1, 2, 4, 16>>

levels == <<1, 2, 4, 8>>
CLASSROOM_LATLNG == [lat |-> 0, lng |-> 0]

VARIABLES
  player,        \* [latlng, holding]
  mode,          \* "player" | "map"
  center,        \* the centre of the Leaflet map view
  overrides,     \* the overrides object
  localStorage,  \* the browser's storage: a function from keys to texts
  cells,         \* the rendered rectangles: the (ii, jj, val) of each click closure
  alerts,        \* the alert() messages of the last handler that ran
  wins,          \* number of "You win!" alerts since the page was loaded
  reloads,       \* number of times the page was reloaded
  probe          \* a call of tokenAtCell's rule or of renderGrid's enumeration
                 \* studied on its own: its arguments and, once made, its result

vars == <<player, mode, center, overrides, localStorage, cells, alerts, wins, reloads, probe>>

(***************************************************************************)
(* Strings.                                                                *)
(***************************************************************************)
DigitChars == <<"0", "1", "2", "3", "4", "5", "6", "7", "8", "9">>

RECURSIVE NatToString(_)
NatToString(n) ==
  IF n < 10 THEN <<DigitChars[n + 1]>>
  ELSE NatToString(n \div 10) \o <<DigitChars[(n % 10) + 1]>>

\* the template literal ${i} of a number
NumberToString(n) == IF n < 0 THEN <<"-">> \o NatToString(-n) ELSE NatToString(n)

cellId(i, j) == NumberToString(i) \o <<",">> \o NumberToString(j)

(***************************************************************************)
(* The luck function: a deterministic hash of the key into [0, 1), one of  *)
(* the draws 0/Draws .. (Draws-1)/Draws.                                   *)
(***************************************************************************)
Draws == 100
HashSeed == 28
HashModulus == 10007

CharCode(c) ==
  CASE c = "," -> 44 [] c = "-" -> 45
    [] c = "0" -> 48 [] c = "1" -> 49 [] c = "2" -> 50 [] c = "3" -> 51
    [] c = "4" -> 52 [] c = "5" -> 53 [] c = "6" -> 54 [] c = "7" -> 55
    [] c = "8" -> 56 [] c = "9" -> 57
    [] c = "a" -> 97 [] c = "e" -> 101 [] c = "l" -> 108 [] c = "n" -> 110
    [] c = "p" -> 112 [] c = "s" -> 115 [] c = "u" -> 117 [] c = "v" -> 118
    [] c = "w" -> 119

RECURSIVE HashFrom(_, _, _)
HashFrom(s, k, h) ==
  IF k > Len(s) THEN h
  ELSE HashFrom(s, k + 1, ((h + CharCode(s[k])) * (h + CharCode(s[k])) + 31 * k) % HashModulus)

\* the draw, in units of 1/Draws
luck(key) == HashFrom(key, 1, HashSeed) % Draws

SpawnSalt == <<",", "s", "p", "a", "w", "n">>
ValueSalt == <<",", "v", "a", "l", "u", "e">>

\* a rule that spawns nothing at the threshold itself
tokenFromDrawsBelow(r, v) ==
  IF r >= SpawnThreshold THEN null
  ELSE LET pick == (v * Len(levels)) \div Draws
       IN levels[pick + 1]

\* the body of tokenAtCell, given its two draws r and v in units of 1/Draws
tokenFromDraws(r, v) ==
  IF r > SpawnThreshold THEN null
  ELSE LET pick == (v * Len(levels)) \div Draws
       IN levels[pick + 1]

tokenAtCell(i, j) ==
  tokenFromDraws(luck(cellId(i, j) \o SpawnSalt), luck(cellId(i, j) \o ValueSalt))

(***************************************************************************)
(* JavaScript objects with string keys, as functions from their keys.  The *)
(* program reads an object only through "in" and [], so the insertion      *)
(* order of the keys is not recorded.                                      *)
(***************************************************************************)
EmptyObject == <<>>

\* id in obj
HasKey(obj, id) == id \in DOMAIN obj

\* obj[id], for an id the object has
GetKey(obj, id) == obj[id]

\* an assignment that leaves the value of a key the object already has
SetKeyKeepsOld(obj, id, val) ==
  [k \in DOMAIN obj \cup {id} |-> IF k \in DOMAIN obj THEN obj[k] ELSE val]

\* obj[id] = val
SetKey(obj, id, val) == [k \in DOMAIN obj \cup {id} |-> IF k = id THEN val ELSE obj[k]]

(***************************************************************************)
(* JSON texts, as sequences of tokens [t, v].                              *)
(***************************************************************************)
Punct(c) == [t |-> "punct", v |-> c]
StringToken(str) == [t |-> "string", v |-> str]
\* a serialiser that writes null as the number 0
ValueTokenNullAsZero(val) == [t |-> "number", v |-> IF val = null THEN 0 ELSE val]

\* JSON.stringify of a value of type number | null
ValueToken(val) == IF val = null THEN [t |-> "null", v |-> "null"] ELSE [t |-> "number", v |-> val]

\* the members "key":value of the keys left to write, separated by commas, in
\* one fixed order of the keys
RECURSIVE StringifyMembers(_, _)
StringifyMembers(obj, keys) ==
  IF keys = {} THEN <<>>
  ELSE LET id == CHOOSE k \in keys : TRUE IN
       <<StringToken(id), Punct(":"), ValueToken(obj[id])>>
       \o (IF keys = {id} THEN <<>> ELSE <<Punct(",")>>)
       \o StringifyMembers(obj, keys \ {id})

JSONstringify(obj) == <<Punct("{")>> \o StringifyMembers(obj, DOMAIN obj) \o <<Punct("}")>>

\* the value a JSON value token stands for
TokenValue(tok) == IF tok.t = "null" THEN null ELSE tok.v

\* members start at position k of the text: key, ":", value, then "," or "}"
RECURSIVE ParseMembers(_, _, _)
ParseMembers(text, k, obj) ==
  IF text[k].t = "punct" THEN obj
  ELSE ParseMembers(text,
                    IF text[k + 3].v = "," THEN k + 4 ELSE k + 3,
                    SetKey(obj, text[k].v, TokenValue(text[k + 2])))

JSONparse(text) == ParseMembers(text, 2, EmptyObject)

EmptyObjectText == <<Punct("{"), Punct("}")>>

\* localStorage.getItem("overrides") ?? "{}"
StoredText(storage) ==
  IF "overrides" \in DOMAIN storage THEN storage["overrides"] ELSE EmptyObjectText

\* const overrides = JSON.parse(localStorage.getItem("overrides") ?? "{}")
LoadOverrides(storage) == JSONparse(StoredText(storage))

(***************************************************************************)
(* Cell resolution.                                                        *)
(***************************************************************************)
\* the cells the bounds let the map show, with their ids and generated tokens
\* worked out once
ShownRows == -(HalfLat \div TILE_DEGREES + 1)..(HalfLat \div TILE_DEGREES + 1)
ShownCols == -(MaxPanCol + HalfLng \div TILE_DEGREES + 1)..(MaxPanCol + HalfLng \div TILE_DEGREES + 1)
CellIdOf == [i \in ShownRows, j \in ShownCols |-> cellId(i, j)]
Generated == [i \in ShownRows, j \in ShownCols |-> tokenAtCell(i, j)]

\* a resolver that takes an Empty override for no override
ReadCellNullFallsThrough(obj, i, j) ==
  LET id == CellIdOf[i, j] IN
  IF HasKey(obj, id) /\ GetKey(obj, id) # null THEN GetKey(obj, id) ELSE Generated[i, j]

ReadCellIn(obj, i, j) ==
  LET id == CellIdOf[i, j] IN
  IF HasKey(obj, id) THEN GetKey(obj, id) ELSE Generated[i, j]

readCell(i, j) == ReadCellIn(overrides, i, j)

(***************************************************************************)
(* Coordinates and the rendered grid.                                      *)
(***************************************************************************)
\* Math.round(n / d): the nearest integer, a half rounding up
MathRound(n, d) == (2 * n + d) \div (2 * d)

latLngToCell(latlng) ==
  [i |-> MathRound(latlng.lat - CLASSROOM_LATLNG.lat, TILE_DEGREES),
   j |-> MathRound(latlng.lng - CLASSROOM_LATLNG.lng, TILE_DEGREES)]

cellToLatLng(i, j) ==
  [lat |-> CLASSROOM_LATLNG.lat + i * TILE_DEGREES,
   lng |-> CLASSROOM_LATLNG.lng + j * TILE_DEGREES]

Min(a, b) == IF a < b THEN a ELSE b
Max(a, b) == IF a > b THEN a ELSE b
Abs(a) == IF a < 0 THEN -a ELSE a

\* map.getBounds(): the viewport around the centre of the view
NorthWest(c) == [lat |-> c.lat + HalfLat, lng |-> c.lng - HalfLng]
SouthEast(c) == [lat |-> c.lat - HalfLat, lng |-> c.lng + HalfLng]

\* an enumeration that runs from the first corner's cell to the second's
GridCellsFromFirstCorner(northWest, southEast, obj) ==
  LET nw == latLngToCell(northWest)
      se == latLngToCell(southEast)
  IN {[i |-> ii, j |-> jj, val |-> ReadCellIn(obj, ii, jj)] : ii \in nw.i..se.i, jj \in nw.j..se.j}

\* the click closures (ii, jj, val) renderGrid creates for the bounds with the
\* corners northWest and southEast, given the store
GridCells(northWest, southEast, obj) ==
  LET nw == latLngToCell(northWest)
      se == latLngToCell(southEast)
      minI == Min(nw.i, se.i)
      maxI == Max(nw.i, se.i)
      minJ == Min(nw.j, se.j)
      maxJ == Max(nw.j, se.j)
  IN {[i |-> ii, j |-> jj, val |-> ReadCellIn(obj, ii, jj)] : ii \in minI..maxI, jj \in minJ..maxJ}

\* renderGrid with the bounds of the view centred at c
RenderGrid(c, obj) == GridCells(NorthWest(c), SouthEast(c), obj)

\* the distance measured from the centre of the view
distanceFromCenter(i, j) ==
  LET p == latLngToCell(center) IN Max(Abs(i - p.i), Abs(j - p.j))

distanceFromPlayer(i, j) ==
  LET p == latLngToCell(player.latlng) IN Max(Abs(i - p.i), Abs(j - p.j))

(***************************************************************************)
(* The override store and localStorage.                                    *)
(***************************************************************************)
\* localStorage.setItem(key, text)
SetItem(storage, key, text) ==
  [k \in DOMAIN storage \cup {key} |-> IF k = key THEN text ELSE storage[k]]

\* a write that saves the store before it assigns the entry
writeCellSavesFirst(i, j, val) ==
  /\ overrides' = SetKey(overrides, CellIdOf[i, j], val)
  /\ localStorage' = SetItem(localStorage, "overrides", JSONstringify(overrides))

\* a write to the cell one column to the east
writeCellNextColumn(i, j, val) ==
  /\ overrides' = SetKey(overrides, CellIdOf[i, j + 1], val)
  /\ localStorage' = SetItem(localStorage, "overrides", JSONstringify(overrides'))

writeCell(i, j, val) ==
  /\ overrides' = SetKey(overrides, CellIdOf[i, j], val)
  /\ localStorage' = SetItem(localStorage, "overrides", JSONstringify(overrides'))

(***************************************************************************)
(* What the browser holds when the page is loaded: nothing, or the text an *)
(* earlier session wrote, which picked up the 8 next to the classroom and  *)
(* crafted tokens up to 128 and 256.                                       *)
(***************************************************************************)
EarlierSession ==
  SetKey(SetKey(SetKey(SetKey(EmptyObject, cellId(0, 1), null), cellId(0, 2), 128),
                cellId(1, 2), 128), cellId(1, 3), 256)

InitialStorages == {<<>>, SetItem(<<>>, "overrides", JSONstringify(EarlierSession))}

(***************************************************************************)
(* alert(): the messages of the handler that ran last.                     *)
(***************************************************************************)
Alert(msg, val) == [msg |-> msg, val |-> val]
TooFar == Alert("Too far away!", null)
PickedUp(v) == Alert("Picked up", v)
Crafted(v) == Alert("Crafted", v)
YouWin == Alert("You win!", null)
CannotCraft == Alert("Cannot craft here!", null)

\* a test that only asks for a value to be there
NotUndefined(val) == TRUE

\* a value that passes if (val)
Truthy(val) == val # null /\ val # 0

\* a craft on any occupied cell
canCraftAny(val, holding) == val # null

\* val === player.holding, for a held token
canCraft(val, holding) == val = holding

\* a craft that adds two instead of doubling
craftValuePlusTwo(val) == val + 2

\* const newVal = val * 2
craftValue(val) == val * 2

\* a win only above the target
reachesTargetStrictly(newVal) == newVal > TARGET_VALUE

\* newVal >= TARGET_VALUE
reachesTarget(newVal) == newVal >= TARGET_VALUE

(***************************************************************************)
(* Page load.                                                              *)
(***************************************************************************)
Loaded(storage) ==
  /\ player = [latlng |-> CLASSROOM_LATLNG, holding |-> null]
  /\ mode = "player"
  /\ center = CLASSROOM_LATLNG
  /\ overrides = LoadOverrides(storage)
  /\ cells = RenderGrid(CLASSROOM_LATLNG, LoadOverrides(storage))
  /\ alerts = <<>>
  /\ wins = 0

\* no call is studied on its own while the game runs
NoProbe == [op |-> "none"]

Init ==
  /\ localStorage \in InitialStorages
  /\ Loaded(localStorage)
  /\ reloads = 0
  /\ probe = NoProbe

\* a reload that restores the player of the session before
ReloadKeepsPlayer ==
  /\ reloads < MaxReloads
  /\ reloads' = reloads + 1
  /\ mode' = "player"
  /\ center' = CLASSROOM_LATLNG
  /\ overrides' = LoadOverrides(localStorage)
  /\ cells' = RenderGrid(CLASSROOM_LATLNG, overrides')
  /\ alerts' = <<>>
  /\ wins' = 0
  /\ UNCHANGED <<player, localStorage, probe>>

\* the user reloads the page: everything but localStorage starts again
Reload ==
  /\ reloads < MaxReloads
  /\ reloads' = reloads + 1
  /\ player' = [latlng |-> CLASSROOM_LATLNG, holding |-> null]
  /\ mode' = "player"
  /\ center' = CLASSROOM_LATLNG
  /\ overrides' = LoadOverrides(localStorage)
  /\ cells' = RenderGrid(CLASSROOM_LATLNG, overrides')
  /\ alerts' = <<>>
  /\ wins' = 0
  /\ UNCHANGED <<localStorage, probe>>

(***************************************************************************)
(* Clicks.                                                                 *)
(***************************************************************************)
\* a click handler that does not render the grid again
onCellClickKeepsRectangles(i, j, val) ==
  IF distanceFromPlayer(i, j) > INTERACTION_RADIUS
  THEN /\ alerts' = <<TooFar>>
       /\ UNCHANGED <<player, mode, center, overrides, localStorage, cells, wins, reloads, probe>>
  ELSE /\ IF player.holding = null
          THEN IF Truthy(val)
               THEN /\ player' = [player EXCEPT !.holding = val]
                    /\ writeCell(i, j, null)
                    /\ alerts' = <<PickedUp(val)>>
                    /\ UNCHANGED wins
               ELSE /\ alerts' = <<>>
                    /\ UNCHANGED <<player, overrides, localStorage, wins>>
          ELSE IF canCraft(val, player.holding)
               THEN LET newVal == craftValue(val) IN
                    /\ writeCell(i, j, newVal)
                    /\ player' = [player EXCEPT !.holding = null]
                    /\ alerts' = IF reachesTarget(newVal)
                                 THEN <<Crafted(newVal), YouWin>>
                                 ELSE <<Crafted(newVal)>>
                    /\ wins' = IF reachesTarget(newVal) THEN wins + 1 ELSE wins
               ELSE /\ alerts' = <<CannotCraft>>
                    /\ UNCHANGED <<player, overrides, localStorage, wins>>
       /\ cells' = cells
       /\ UNCHANGED <<mode, center, reloads, probe>>

\* a click handler whose pickup leaves the token in the cell
onCellClickLeavesToken(i, j, val) ==
  IF distanceFromPlayer(i, j) > INTERACTION_RADIUS
  THEN /\ alerts' = <<TooFar>>
       /\ UNCHANGED <<player, mode, center, overrides, localStorage, cells, wins, reloads, probe>>
  ELSE /\ IF player.holding = null
          THEN IF Truthy(val)
               THEN /\ player' = [player EXCEPT !.holding = val]
                    /\ UNCHANGED <<overrides, localStorage>>
                    /\ alerts' = <<PickedUp(val)>>
                    /\ UNCHANGED wins
               ELSE /\ alerts' = <<>>
                    /\ UNCHANGED <<player, overrides, localStorage, wins>>
          ELSE IF canCraft(val, player.holding)
               THEN LET newVal == craftValue(val) IN
                    /\ writeCell(i, j, newVal)
                    /\ player' = [player EXCEPT !.holding = null]
                    /\ alerts' = IF reachesTarget(newVal)
                                 THEN <<Crafted(newVal), YouWin>>
                                 ELSE <<Crafted(newVal)>>
                    /\ wins' = IF reachesTarget(newVal) THEN wins + 1 ELSE wins
               ELSE /\ alerts' = <<CannotCraft>>
                    /\ UNCHANGED <<player, overrides, localStorage, wins>>
       /\ cells' = RenderGrid(center, overrides')
       /\ UNCHANGED <<mode, center, reloads, probe>>

onCellClick(i, j, val) ==
  IF distanceFromPlayer(i, j) > INTERACTION_RADIUS
  THEN /\ alerts' = <<TooFar>>
       /\ UNCHANGED <<player, mode, center, overrides, localStorage, cells, wins, reloads, probe>>
  ELSE /\ IF player.holding = null
          THEN IF Truthy(val)
               THEN /\ player' = [player EXCEPT !.holding = val]
                    /\ writeCell(i, j, null)
                    /\ alerts' = <<PickedUp(val)>>
                    /\ UNCHANGED wins
               ELSE /\ alerts' = <<>>
                    /\ UNCHANGED <<player, overrides, localStorage, wins>>
          ELSE IF canCraft(val, player.holding)
               THEN LET newVal == craftValue(val) IN
                    /\ writeCell(i, j, newVal)
                    /\ player' = [player EXCEPT !.holding = null]
                    /\ alerts' = IF reachesTarget(newVal)
                                 THEN <<Crafted(newVal), YouWin>>
                                 ELSE <<Crafted(newVal)>>
                    /\ wins' = IF reachesTarget(newVal) THEN wins + 1 ELSE wins
               ELSE /\ alerts' = <<CannotCraft>>
                    /\ UNCHANGED <<player, overrides, localStorage, wins>>
       /\ cells' = RenderGrid(center, overrides')
       /\ UNCHANGED <<mode, center, reloads, probe>>

\* the user clicks one of the rendered rectangles
Click ==
  \E c \in cells :
    /\ onCellClick(c.i, c.j, c.val)
    /\ DOMAIN overrides' = DOMAIN overrides \/ Cardinality(DOMAIN overrides') <= MaxOverrides

(***************************************************************************)
(* Keys and map movement.                                                  *)
(***************************************************************************)
PlayerInRange(latlng) ==
  /\ latlng.lat = CLASSROOM_LATLNG.lat
  /\ latlng.lng \in 0..(MaxCol * TILE_DEGREES)

ViewInRange(latlng) ==
  /\ latlng.lat = CLASSROOM_LATLNG.lat
  /\ latlng.lng \in 0..(MaxPanCol * TILE_DEGREES)

\* a toggle that never moves the view
toggleModeKeepsView ==
  /\ mode' = IF mode = "player" THEN "map" ELSE "player"
  /\ center' = center
  /\ cells' = RenderGrid(center', overrides)
  /\ alerts' = <<>>
  /\ UNCHANGED <<player, overrides, localStorage, wins, reloads, probe>>

toggleMode ==
  /\ mode' = IF mode = "player" THEN "map" ELSE "player"
  /\ center' = IF mode' = "player" THEN player.latlng ELSE center
  /\ cells' = RenderGrid(center', overrides)
  /\ alerts' = <<>>
  /\ UNCHANGED <<player, overrides, localStorage, wins, reloads, probe>>

\* keydown of Tab
KeyTab == toggleMode

\* the (dLat, dLng) of the arrow and WASD keys
MoveSteps ==
  {<<TILE_DEGREES, 0>>, <<-TILE_DEGREES, 0>>, <<0, -TILE_DEGREES>>, <<0, TILE_DEGREES>>}

\* a movement key that moves the player in both modes
KeyMoveAlwaysMovesPlayer(dLat, dLng) ==
  /\ player' = [player EXCEPT !.latlng = [lat |-> player.latlng.lat + dLat,
                                          lng |-> player.latlng.lng + dLng]]
  /\ PlayerInRange(player'.latlng)
  /\ center' = IF mode = "player" THEN player'.latlng
               ELSE [lat |-> center.lat + dLat, lng |-> center.lng + dLng]
  /\ ViewInRange(center')
  /\ cells' = RenderGrid(center', overrides)
  /\ alerts' = <<>>
  /\ UNCHANGED <<mode, overrides, localStorage, wins, reloads, probe>>

\* keydown of a movement key; the moveend that map.setView fires re-renders in
\* "map" mode, and the handler's own renderGrid call renders again
KeyMove(dLat, dLng) ==
  /\ IF mode = "player"
     THEN /\ player' = [player EXCEPT !.latlng = [lat |-> player.latlng.lat + dLat,
                                                  lng |-> player.latlng.lng + dLng]]
          /\ PlayerInRange(player'.latlng)
          /\ center' = player'.latlng
     ELSE /\ center' = [lat |-> center.lat + dLat, lng |-> center.lng + dLng]
          /\ ViewInRange(center')
          /\ UNCHANGED player
  /\ cells' = RenderGrid(center', overrides)
  /\ alerts' = <<>>
  /\ UNCHANGED <<mode, overrides, localStorage, wins, reloads, probe>>

Next ==
  \/ Click
  \/ KeyTab
  \/ \E d \in MoveSteps : KeyMove(d[1], d[2])
  \/ Reload

Spec == Init /\ [][Next]_vars

\* the game in a browser that has no stored overrides
FreshInit ==
  /\ localStorage = <<>>
  /\ Loaded(localStorage)
  /\ reloads = 0
  /\ probe = NoProbe

FreshSpec == FreshInit /\ [][Next]_vars

(***************************************************************************)
(* tokenAtCell's rule and renderGrid's enumeration on their own: a freshly *)
(* loaded page, and one call with arguments the game need not reach - any  *)
(* pair of draws, any two corners.                                         *)
(***************************************************************************)
\* the draws luck can return, in units of 1/Draws
DrawValues == 0..(Draws - 1)

\* the corners a region can have
Corners == [lat : -MaxCornerLat..MaxCornerLat, lng : -MaxCornerLng..MaxCornerLng]

GeneratorProbes == [op : {"tokenAtCell"}, r : DrawValues, v : DrawValues, done : {FALSE}, result : {null}]
RegionProbes == [op : {"renderGrid"}, a : Corners, b : Corners, done : {FALSE}, result : {{}}]

CallsInit ==
  /\ localStorage = <<>>
  /\ Loaded(localStorage)
  /\ reloads = 0
  /\ probe \in GeneratorProbes \cup RegionProbes

\* tokenAtCell draws r and v
CallGenerator ==
  /\ probe.op = "tokenAtCell"
  /\ ~probe.done
  /\ probe' = [probe EXCEPT !.done = TRUE, !.result = tokenFromDraws(probe.r, probe.v)]
  /\ UNCHANGED <<player, mode, center, overrides, localStorage, cells, alerts, wins, reloads>>

\* renderGrid enumerates the cells of the bounds with corners a and b
CallRenderGrid ==
  /\ probe.op = "renderGrid"
  /\ ~probe.done
  /\ probe' = [probe EXCEPT !.done = TRUE, !.result = GridCells(probe.a, probe.b, overrides)]
  /\ UNCHANGED <<player, mode, center, overrides, localStorage, cells, alerts, wins, reloads>>

CallsNext == CallGenerator \/ CallRenderGrid

CallsSpec == CallsInit /\ [][CallsNext]_vars

(***************************************************************************)
(* Properties.                                                             *)
(***************************************************************************)
\* the cell the player stands in, and the Chebyshev distance of a cell from it
PlayerCell == latLngToCell(player.latlng)
Chebyshev(i, j) ==
  LET di == IF i >= PlayerCell.i THEN i - PlayerCell.i ELSE PlayerCell.i - i
      dj == IF j >= PlayerCell.j THEN j - PlayerCell.j ELSE PlayerCell.j - j
  IN IF di >= dj THEN di ELSE dj
WithinRadius(i, j) == Chebyshev(i, j) <= INTERACTION_RADIUS

\* the step is a click on the rendered rectangle c
ClickOn(c) == onCellClick(c.i, c.j, c.val)

\* C1 Pickup removes: an empty-handed click on a cell within the radius that
\* resolves to Occupied(v) leaves the player holding v and the cell resolving
\* to Empty, whatever tokenAtCell gives for it.
C1_PickupRemoves ==
  [][\A c \in cells :
       (/\ player.holding = null
        /\ WithinRadius(c.i, c.j)
        /\ readCell(c.i, c.j) # null)
       => \/ /\ player'.holding = readCell(c.i, c.j)
             /\ ReadCellIn(overrides', c.i, c.j) = null
          \/ ~ClickOn(c)]_vars

\* a token was just picked up from a cell where generation spawns that token,
\* and another from a cell that held a crafted token
C1_Witness ==
  /\ player.holding = 16
  /\ alerts = <<PickedUp(16)>>
  /\ \E i \in ShownRows, j \in ShownCols :
       /\ tokenAtCell(i, j) = 8
       /\ HasKey(overrides, cellId(i, j))
       /\ readCell(i, j) = null

\* C2 Craft doubles: holding h, a click on a cell within the radius that
\* resolves to Occupied(h) leaves the player empty-handed and the cell
\* resolving to Occupied(2h).
C2_CraftDoubles ==
  [][\A c \in cells :
       (/\ player.holding # null
        /\ WithinRadius(c.i, c.j)
        /\ readCell(c.i, c.j) = player.holding)
       => \/ /\ player'.holding = null
             /\ ReadCellIn(overrides', c.i, c.j) = 2 * player.holding
          \/ ~ClickOn(c)]_vars

\* two generated 8s were just crafted into a 16
C2_Witness ==
  /\ player.holding = null
  /\ alerts = <<Crafted(16)>>
  /\ \E c \in cells : c.val = 16 /\ tokenAtCell(c.i, c.j) = 8 /\ WithinRadius(c.i, c.j)

\* C3 Mismatch rejected, no mutation: holding h, a click on a cell within the
\* radius that resolves to Empty or to Occupied(v) with v # h is rejected, and
\* the override store, the persisted text, the resolved state of the cell and
\* the held token stay as they were.
C3_MismatchRejected ==
  [][\A c \in cells :
       (/\ player.holding # null
        /\ WithinRadius(c.i, c.j)
        /\ readCell(c.i, c.j) # player.holding)
       => \/ /\ alerts' = <<CannotCraft>>
             /\ overrides' = overrides
             /\ localStorage' = localStorage
             /\ ReadCellIn(overrides', c.i, c.j) = readCell(c.i, c.j)
             /\ player' = player
          \/ ~ClickOn(c)]_vars

\* a craft was just rejected while a token of another value and an empty cell
\* are both within the radius
C3_Witness ==
  /\ player.holding # null
  /\ alerts = <<CannotCraft>>
  /\ \E c \in cells : WithinRadius(c.i, c.j) /\ c.val \notin {null, player.holding}
  /\ \E c \in cells : WithinRadius(c.i, c.j) /\ c.val = null

\* C4 Distance gate: a click on a cell further than the interaction radius
\* from the player's cell is rejected as too far and changes neither the
\* overrides nor the held token, also when it would be a pickup or a craft;
\* and a move in "map" mode leaves the distance of every cell as it was.
C4_DistanceGate ==
  [][/\ \A c \in cells :
          (Chebyshev(c.i, c.j) > INTERACTION_RADIUS)
          => \/ /\ alerts' = <<TooFar>>
                /\ overrides' = overrides
                /\ localStorage' = localStorage
                /\ player' = player
             \/ ~ClickOn(c)
     /\ (mode = "map" /\ mode' = "map" /\ center' # center)
        => \A i \in ShownRows, j \in ShownCols :
             (distanceFromPlayer(i, j) > INTERACTION_RADIUS)'
               = (distanceFromPlayer(i, j) > INTERACTION_RADIUS)]_vars

\* in "map" mode, with the view panned away from the player, a click that
\* would have been a craft was just rejected as too far
C4_Witness ==
  /\ mode = "map"
  /\ center # player.latlng
  /\ alerts = <<TooFar>>
  /\ player.holding # null
  /\ \E c \in cells :
       /\ Chebyshev(c.i, c.j) > INTERACTION_RADIUS
       /\ c.val = player.holding

\* the last handler raised the Won signal
Won(shown) == \E k \in 1..Len(shown) : shown[k] = YouWin

WriteCellStep(i, j) ==
  /\ HasKey(overrides', CellIdOf[i, j])
  /\ writeCell(i, j, GetKey(overrides', CellIdOf[i, j]))

\* C6 Override precedence: a cell whose override entry is Empty resolves to
\* Empty, whatever tokenAtCell gives for it, and goes on resolving to Empty
\* through every step that is not a writeCell on that cell.
C6_OverridePrecedence ==
  [][\A i \in ShownRows, j \in ShownCols :
       (HasKey(overrides, cellId(i, j)) /\ GetKey(overrides, cellId(i, j)) = null)
       => /\ readCell(i, j) = null
          /\ ReadCellIn(overrides', i, j) = null \/ WriteCellStep(i, j)]_vars

\* after a reload, a cell where generation spawns a token still resolves to
\* Empty because it was picked up
C6_Witness ==
  /\ reloads = 1
  /\ \E i \in ShownRows, j \in ShownCols :
       /\ tokenAtCell(i, j) # null
       /\ HasKey(overrides, cellId(i, j))
       /\ readCell(i, j) = null
  /\ \E i \in ShownRows, j \in ShownCols : readCell(i, j) = 16

\* C7 Mode isolation: a move in "map" mode leaves the player where it is; a
\* move in "player" mode moves the player by the step and the centre of the
\* view is the player's position after it.
C7_ModeIsolation ==
  [][\A d \in MoveSteps :
       \/ IF mode = "map"
          THEN player' = player
          ELSE /\ player'.latlng = [lat |-> player.latlng.lat + d[1],
                                    lng |-> player.latlng.lng + d[2]]
               /\ player'.holding = player.holding
               /\ center' = player'.latlng
       \/ ~KeyMove(d[1], d[2])]_vars

\* the player has walked in "player" mode and the view was then panned away
\* from the player in "map" mode
C7_Witness ==
  /\ mode = "map"
  /\ player.latlng # CLASSROOM_LATLNG
  /\ center # player.latlng
  /\ center # CLASSROOM_LATLNG

\* C8 toggleMode flips the mode; into "player" mode the centre of the view
\* becomes the player's position, into "map" mode it stays where it was; the
\* player's position and held token are unchanged.
C8_ToggleMode ==
  [][\/ /\ mode' # mode
        /\ mode' = "player" => center' = player.latlng
        /\ mode' = "map" => center' = center
        /\ player' = player
     \/ ~toggleMode]_vars

\* back in "player" mode, holding a token, with the view on a player who is
\* not at the classroom
C8_Witness ==
  /\ mode = "player"
  /\ alerts = <<>>
  /\ player.holding # null
  /\ player.latlng # CLASSROOM_LATLNG
  /\ center = player.latlng
  /\ cells # RenderGrid(CLASSROOM_LATLNG, overrides)

\* C9 Flush on every set: in every state the text stored under "overrides"
\* decodes to the override mapping in memory, no stored text counting as the
\* empty mapping.
C9_FlushOnEverySet == JSONparse(StoredText(localStorage)) = overrides

\* a pickup and a craft were written, starting from an empty browser storage
C9_Witness ==
  /\ "overrides" \in DOMAIN localStorage
  /\ DOMAIN overrides = {cellId(0, 1), cellId(0, 8)}
  /\ overrides[cellId(0, 1)] = null
  /\ overrides[cellId(0, 8)] = 16
  /\ alerts = <<Crafted(16)>>

\* C10 Persistence round-trip: a reload reproduces the override mapping, with
\* the same keys and the same entry for each key, Empty entries included, so
\* every cell resolves as it did before the reload.
C10_RoundTrip ==
  [][reloads' # reloads
     => /\ DOMAIN overrides' = DOMAIN overrides
        /\ \A id \in DOMAIN overrides : overrides'[id] = overrides[id]
        /\ \A i \in ShownRows, j \in ShownCols : ReadCellIn(overrides', i, j) = readCell(i, j)]_vars

\* the page was reloaded with an Empty entry and a crafted token in the store
C10_Witness ==
  /\ reloads = 1
  /\ wins = 0
  /\ player = [latlng |-> CLASSROOM_LATLNG, holding |-> null]
  /\ DOMAIN overrides = {cellId(0, 1), cellId(0, 8)}
  /\ overrides[cellId(0, 1)] = null
  /\ overrides[cellId(0, 8)] = 16
  /\ cells = RenderGrid(CLASSROOM_LATLNG, overrides)

\* C11 Player state is never persisted: the browser's storage holds the
\* overrides and nothing else, and a reload at any point leaves the player at
\* the classroom and empty-handed while the override store is what it was, so
\* a cell emptied by a pickup still resolves to Empty.
C11_PlayerNotPersisted ==
  [][/\ DOMAIN localStorage' \subseteq {"overrides"}
     /\ reloads' # reloads
        => /\ player' = [latlng |-> CLASSROOM_LATLNG, holding |-> null]
           /\ overrides' = overrides
           /\ \A i \in ShownRows, j \in ShownCols :
                (HasKey(overrides, cellId(i, j)) /\ readCell(i, j) = null)
                => ReadCellIn(overrides', i, j) = null]_vars

\* the page was reloaded while the player held the 8 picked up next to the
\* classroom: the cell is still Empty and the token is in nobody's hand
C11_Witness ==
  /\ reloads = 1
  /\ player = [latlng |-> CLASSROOM_LATLNG, holding |-> null]
  /\ tokenAtCell(0, 1) = 8
  /\ DOMAIN overrides = {cellId(0, 1)}
  /\ readCell(0, 1) = null

\* the (i, j) of a set of click closures
Coordinates(closures) == {<<c.i, c.j>> : c \in closures}

\* the inclusive rectangle of cells between the rounded corners a and b
Rectangle(a, b) ==
  LET ca == latLngToCell(a)
      cb == latLngToCell(b)
  IN {<<i, j>> \in ShownRows \X ShownCols :
        /\ (ca.i <= i /\ i <= cb.i) \/ (cb.i <= i /\ i <= ca.i)
        /\ (ca.j <= j /\ j <= cb.j) \/ (cb.j <= j /\ j <= ca.j)}

\* C12 Region normalization: the cells renderGrid enumerates for two opposite
\* corners are those it enumerates for the corners in the other order and for
\* the other two corners of the same bounds, and they are the inclusive
\* rectangle between the cells the corners round to; bounds of no area give
\* exactly one cell.
C12_RegionNormalization ==
  (probe.op = "renderGrid" /\ probe.done)
  => /\ probe.result = GridCells(probe.b, probe.a, overrides)
     /\ probe.result = GridCells([lat |-> probe.a.lat, lng |-> probe.b.lng],
                                 [lat |-> probe.b.lat, lng |-> probe.a.lng], overrides)
     /\ Coordinates(probe.result) = Rectangle(probe.a, probe.b)
     /\ Cardinality(probe.result) = Cardinality(Rectangle(probe.a, probe.b))
     /\ \A c \in probe.result : c.val = readCell(c.i, c.j)
     /\ probe.a = probe.b => Cardinality(probe.result) = 1

\* renderGrid was given the south-east corner first and enumerated more than
\* one row and more than one column
C12_Witness ==
  /\ probe.op = "renderGrid" /\ probe.done
  /\ probe.a.lat < probe.b.lat /\ probe.a.lng > probe.b.lng
  /\ \E c, d \in probe.result : c.i # d.i /\ c.j # d.j

\* v is one of 1, 2, 4, 8 doubled any number of times
RECURSIVE FromLevel(_)
FromLevel(v) ==
  \/ v \in {1, 2, 4, 8}
  \/ v > 8 /\ v % 2 = 0 /\ FromLevel(v \div 2)

\* C13 Token value domain: from an empty override store, every occupied cell
\* and the held token have a value b*2^k with b in {1,2,4,8}; a cell without
\* an override entry resolves to Empty or to one of 1, 2, 4, 8; and a cell
\* comes to hold a value outside {1,2,4,8} only by a craft that writes its
\* override entry.
C13_TokenValueDomain ==
  [][/\ player.holding # null => FromLevel(player.holding)
     /\ \A i \in ShownRows, j \in ShownCols :
          \/ readCell(i, j) = null
          \/ /\ FromLevel(readCell(i, j))
             /\ HasKey(overrides, CellIdOf[i, j]) \/ readCell(i, j) \in {1, 2, 4, 8}
     /\ \/ overrides' = overrides
        \/ \A i \in ShownRows, j \in ShownCols :
             (/\ ReadCellIn(overrides', i, j) \notin {null, 1, 2, 4, 8}
              /\ ReadCellIn(overrides', i, j) # readCell(i, j))
             => /\ HasKey(overrides', CellIdOf[i, j])
                /\ player.holding # null
                /\ readCell(i, j) = player.holding
                /\ GetKey(overrides', CellIdOf[i, j]) = 2 * player.holding
                /\ alerts' = <<Crafted(2 * player.holding)>>]_vars

\* a 16 crafted where generation spawns an 8 is still there after a reload,
\* and the player has walked on
C13_Witness ==
  /\ reloads = 1
  /\ player.latlng # CLASSROOM_LATLNG
  /\ \E c \in cells :
       /\ c.val = 16
       /\ tokenAtCell(c.i, c.j) = 8
       /\ HasKey(overrides, cellId(c.i, c.j))

\* the token is the level at index floor(4v) of 1, 2, 4, 8, for a draw v/Draws
LevelOfDraw(token, v) ==
  \E k \in 0..3 :
    /\ k * Draws <= 4 * v
    /\ 4 * v < (k + 1) * Draws
    /\ token = <<1, 2, 4, 8>>[k + 1]

\* C14 Generator rule, as the code has it: a cell spawns a token exactly when
\* its spawn draw is not above 0.15, a draw equal to 0.15 spawning; the token
\* spawned is the level at index floor(4 * valueDraw) of 1, 2, 4, 8.
C14_SpawnsUpToThreshold ==
  (probe.op = "tokenAtCell" /\ probe.done)
  => /\ probe.result # null <=> 100 * probe.r <= 15 * Draws
     /\ probe.result # null => LevelOfDraw(probe.result, probe.v)

\* C14 as the specification states it: a cell spawns a token exactly when its
\* spawn draw is below 0.15, a draw equal to 0.15 not spawning
C14_SpawnsBelowThreshold ==
  (probe.op = "tokenAtCell" /\ probe.done)
  => /\ probe.result # null <=> 100 * probe.r < 15 * Draws
     /\ probe.result # null => LevelOfDraw(probe.result, probe.v)

\* a spawn draw of exactly 0.15 spawned an 8
C14_Witness ==
  /\ probe.op = "tokenAtCell" /\ probe.done
  /\ 100 * probe.r = 15 * Draws
  /\ probe.result = 8

\* C16 No stale click state: the value every rendered rectangle's click
\* handler was created with is what readCell gives for its cell now, so a
\* click always acts on the current resolved state.
C16_NoStaleClick == \A c \in cells : c.val = readCell(c.i, c.j)

\* in "map" mode a token was just picked up next to a cell emptied before, and
\* both rectangles were created again with Empty
C16_Witness ==
  /\ mode = "map"
  /\ alerts = <<PickedUp(16)>>
  /\ Cardinality({c \in cells : c.val = null /\ HasKey(overrides, cellId(c.i, c.j))}) >= 2

\* C17 Empty-handed click on an Empty cell within the radius: the override
\* store is unchanged, the cell gaining no entry if it had none, the persisted
\* text is not rewritten and the player stays as it was, empty-handed.
C17_EmptyClickNoChange ==
  [][\A c \in cells :
       (/\ player.holding = null
        /\ WithinRadius(c.i, c.j)
        /\ readCell(c.i, c.j) = null)
       => \/ /\ overrides' = overrides
             /\ HasKey(overrides', cellId(c.i, c.j)) = HasKey(overrides, cellId(c.i, c.j))
             /\ localStorage' = localStorage
             /\ player' = player
             /\ player'.holding = null
          \/ ~ClickOn(c)]_vars

\* after a pickup and a craft at the classroom the player is empty-handed and
\* the craft's alert is gone, with Empty cells within the radius of either
\* kind: one with an Empty override entry and one with no entry
C17_Witness ==
  /\ player = [latlng |-> CLASSROOM_LATLNG, holding |-> null]
  /\ mode = "player"
  /\ alerts = <<>>
  /\ reloads = 0
  /\ DOMAIN overrides = {cellId(0, 1), cellId(0, 8)}
  /\ \E c \in cells :
       WithinRadius(c.i, c.j) /\ c.val = null /\ ~HasKey(overrides, cellId(c.i, c.j))
  /\ \E c \in cells :
       WithinRadius(c.i, c.j) /\ c.val = null /\ HasKey(overrides, cellId(c.i, c.j))
       /\ tokenAtCell(c.i, c.j) # null

\* the step is a movement key or a toggle of the mode
MoveOrToggle == toggleMode \/ \E d \in MoveSteps : KeyMove(d[1], d[2])

\* C18 Frame of operations: a click on (i, j) changes no override entry but
\* that of (i, j), so every other cell resolves as before, and it changes
\* neither the player's position nor the mode; a move or a toggle of the mode
\* changes no override entry, no persisted text and not the held token.
C18_Frame ==
  [][/\ \A c \in cells :
          \/ /\ player'.latlng = player.latlng
             /\ mode' = mode
             /\ \/ overrides' = overrides
                \/ /\ DOMAIN overrides' \subseteq DOMAIN overrides \cup {cellId(c.i, c.j)}
                   /\ \A i \in ShownRows, j \in ShownCols :
                        <<i, j>> # <<c.i, c.j>>
                        => /\ HasKey(overrides', cellId(i, j)) = HasKey(overrides, cellId(i, j))
                           /\ ReadCellIn(overrides', i, j) = readCell(i, j)
          \/ ~ClickOn(c)
     /\ \/ /\ overrides' = overrides
           /\ localStorage' = localStorage
           /\ player'.holding = player.holding
        \/ ~MoveOrToggle]_vars

\* the player, holding a token picked up at the classroom, has walked east
\* and switched to "map" mode
C18_Witness ==
  /\ mode = "map"
  /\ alerts = <<>>
  /\ player.holding = 8
  /\ player.latlng # CLASSROOM_LATLNG
  /\ DOMAIN overrides = {cellId(0, 1)}

\* the value of a cell state or of the hand, Empty counting 0
TokenValueOf(val) == IF val = null THEN 0 ELSE val

\* the sum of the resolved values of the cells (i, j), (i, j+1), ... and of
\* the rows after row i
RECURSIVE GridTotalFrom(_, _, _)
GridTotalFrom(obj, i, j) ==
  IF \A r \in ShownRows : r < i THEN 0
  ELSE IF \A c \in ShownCols : c < j
       THEN GridTotalFrom(obj, i + 1, CHOOSE c \in ShownCols : \A d \in ShownCols : c <= d)
       ELSE TokenValueOf(ReadCellIn(obj, i, j)) + GridTotalFrom(obj, i, j + 1)

\* the token value on the grid of all cells the map can show, and in the hand
TotalValue(obj, holding) ==
  GridTotalFrom(obj, CHOOSE r \in ShownRows : \A q \in ShownRows : r <= q,
                CHOOSE c \in ShownCols : \A d \in ShownCols : c <= d)
  + TokenValueOf(holding)

\* C19 Token conservation within a session: no click, move or toggle changes
\* the sum of the resolved values of all cells plus the value of the held
\* token; a reload is not part of the session.
C19_Conservation ==
  [][reloads' = reloads
     => \/ overrides' = overrides /\ player'.holding = player.holding
        \/ TotalValue(overrides', player'.holding) = TotalValue(overrides, player.holding)]_vars

\* two 8s were crafted into a 16 that is now in the player's hand, and the
\* grid has lost 16
C19_Witness ==
  /\ reloads = 0
  /\ player.holding = 16
  /\ DOMAIN overrides = {cellId(0, 1), cellId(0, 8)}
  /\ TotalValue(overrides, null) + 16 = TotalValue(EmptyObject, null)

====
